---- MODULE Spec2Model ----
(***************************************************************************)
(* The reactive recomputation engine of noise-explorer (src/src/app.rs):   *)
(* the stable key table (slot_to_node), the node graph (Snarl), the        *)
(* pending changed set, dirty propagation (add_dirty_tree), the versioned  *)
(* dispatch to the "Recalculator" thread over an mpsc channel, and the     *)
(* merge of its results at the start of every update().                    *)
(*                                                                         *)
(* Numbers of type f64 are kept in tenths (0.5 is 5).                      *)
(***************************************************************************)
EXTENDS Integers, Sequences, FiniteSets, TLC

\* ------------------------------------------------------------- bounds
\* User interface events (insert, remove, edit, connect, disconnect, clear)
\* a behaviour of Spec holds.
MaxEvents == 3
\* User interface events a behaviour of SpecGraph holds.
MaxGraphEvents == 1
\* Wires the graph of SpecGraph starts with.
MaxWires == 4
\* Side of the sample grid the worker iterates (256 in the source).
TextureSize == 2

\* ------------------------------------------------- noises.rs: NoiseType
NoiseTypes == {"Checkerboard", "Perlin", "Constant", "Blend", "Max", "Min"}

\* The types the palette offers in the model (a source with a slider and a
\* combinator with inputs).
PaletteTypes == {"Constant", "Max"}

classification(noise_type) ==
    IF noise_type \in {"Perlin", "Checkerboard", "Constant"}
    THEN "Source" ELSE "Combinator"

DefaultSeed == 12345
DefaultValue == 5

\* NoiseType::config: the default configuration of a node of this type.
noise_type_config(noise_type) ==
    CASE noise_type = "Perlin" -> [tag |-> "Perlin", arg |-> DefaultSeed]
      [] noise_type = "Constant" -> [tag |-> "Constant", arg |-> DefaultValue]
      [] OTHER -> [tag |-> "Empty", arg |-> 0]

input_count(noise_type) ==
    CASE noise_type \in {"Checkerboard", "Perlin", "Constant"} -> 0
      [] noise_type = "Blend" -> 3
      [] OTHER -> 2

\* The values a slider of show_body can move a configuration to.
SliderValues(cfg) ==
    CASE cfg.tag = "Perlin" -> {0, DefaultSeed}
      [] cfg.tag = "Constant" -> {0, DefaultValue}
      [] OTHER -> {}

\* ------------------------------------------------ slotmap: SlotMap
\* A slot is occupied iff its version is odd; a key is (idx, version).
NoNode == -1
EmptySlotMap == [slots |-> << >>, free |-> << >>]

SlotMapGet(sm, key) ==
    IF key.idx \in 1..Len(sm.slots) /\ sm.slots[key.idx].version = key.version
    THEN sm.slots[key.idx].value
    ELSE NoNode

SlotMapContains(sm, key) == SlotMapGet(sm, key) # NoNode

\* `version | 1`: the version an insert gives the slot it fills.
OccupiedVersion(version) == IF version % 2 = 0 THEN version + 1 ELSE version

\* The key the next insert returns: the head of the free list with its
\* version made odd, or a new slot with version 1.
SlotMapNextKey(sm) ==
    IF sm.free = << >>
    THEN [idx |-> Len(sm.slots) + 1, version |-> 1]
    ELSE [idx |-> Head(sm.free),
          version |-> OccupiedVersion(sm.slots[Head(sm.free)].version)]

SlotMapInsert(sm, value) ==
    LET key == SlotMapNextKey(sm) IN
    IF sm.free = << >>
    THEN [sm EXCEPT !.slots = Append(@, [version |-> key.version, value |-> value])]
    ELSE [slots |-> [sm.slots EXCEPT ![key.idx] = [version |-> key.version, value |-> value]],
          free |-> Tail(sm.free)]

RemovedVersionKept(version) == version
RemovedVersion(version) == version + 1

\* SlotMap::remove: a key that resolves frees its slot and bumps the slot's
\* version, so the key never matches again.
SlotMapRemove(sm, key) ==
    IF SlotMapGet(sm, key) = NoNode THEN sm
    ELSE [slots |-> [sm.slots EXCEPT ![key.idx] =
                        [version |-> RemovedVersion(key.version), value |-> NoNode]],
          free |-> <<key.idx>> \o sm.free]

\* ------------------------------------------------ egui_snarl: Snarl
\* nodes: a slab (ids from 0, a removed id is the next one reused);
\* wires: (out pin node, in pin node, in pin input).
EmptySnarl == [nodes |-> << >>, len |-> 0, vacant |-> << >>, wires |-> {}]

SnarlNodeIds(snarl) == DOMAIN snarl.nodes

SnarlNextId(snarl) ==
    IF snarl.vacant = << >> THEN snarl.len ELSE Head(snarl.vacant)

SnarlInsertNode(snarl, node) ==
    LET id == SnarlNextId(snarl) IN
    [nodes |-> (id :> node) @@ snarl.nodes,
     len |-> IF snarl.vacant = << >> THEN snarl.len + 1 ELSE snarl.len,
     vacant |-> IF snarl.vacant = << >> THEN << >> ELSE Tail(snarl.vacant),
     wires |-> snarl.wires]

SnarlRemoveNode(snarl, id) ==
    [nodes |-> [i \in (DOMAIN snarl.nodes) \ {id} |-> snarl.nodes[i]],
     len |-> snarl.len,
     vacant |-> <<id>> \o snarl.vacant,
     wires |-> {w \in snarl.wires : w.from # id /\ w.to # id}]

Wire(from, to, input) == [from |-> from, to |-> to, input |-> input]

\* ------------------------------------------------ app.rs: the worker's sampling
F64Max == 1000000
F64Min == -1000000
ConstantHalf == 5

\* noise::Constant::get returns its value at every point.
NoiseFnGet(noise_fn, point) == noise_fn.value

\* The noise function update() puts into every request.
RequestNoiseFn(node) == [kind |-> "Constant", value |-> ConstantHalf]

\* The two nested loops of recalculator_thread over the sample grid, row by
\* row, keeping the smallest and the largest value seen.
RECURSIVE SampleGrid(_, _, _)
SampleGrid(request, k, acc) ==
    IF k = request.texture_width * request.texture_height THEN acc
    ELSE LET x == k % request.texture_width
             y == k \div request.texture_width
             noise_val == NoiseFnGet(request.noise_fn, <<x, y>>)
             seen == [noise_min |-> IF noise_val < acc.noise_min
                                    THEN noise_val ELSE acc.noise_min,
                      noise_max |-> IF noise_val > acc.noise_max
                                    THEN noise_val ELSE acc.noise_max]
         IN \* the bound `range` holds the value of `seen`, computed once
            CHOOSE result \in {SampleGrid(request, k + 1, range) : range \in {seen}} : TRUE

Recalculate(request) ==
    LET range == SampleGrid(request, 0, [noise_min |-> F64Max, noise_max |-> F64Min])
    IN [node_id |-> request.node_id,
        new_version |-> request.new_version,
        noise_min |-> range.noise_min,
        noise_max |-> range.noise_max]

SupersededNever(counter, request) == FALSE

\* The worker's staleness test: the shared counter against the request.
Superseded(counter, request) == counter # request.new_version

\* ------------------------------------------------ app.rs: dirty propagation
\* The Bimultimap collected from the wires: a set of (left, right) pairs,
\* left the key of the wire's in pin node, right the key of its out pin node.
Connections(snarl) ==
    {<<snarl.nodes[w.to].node_id_key, snarl.nodes[w.from].node_id_key>> :
        w \in {v \in snarl.wires : v.from \in DOMAIN snarl.nodes /\ v.to \in DOMAIN snarl.nodes}}

BimultimapGetNone(connections, left) == {}
\* Bimultimap::get(&left): the right values paired with this left key.
BimultimapGet(connections, left) == {c[2] : c \in {d \in connections : d[1] = left}}

\* add_dirty_tree: acc.to is the visited set, acc.visits the nodes in the
\* order they were inserted, acc.calls the number of calls made.
RECURSIVE add_dirty_tree(_, _, _)
RECURSIVE add_dirty_each(_, _, _)
add_dirty_tree(node, connections, acc) ==
    IF node \in acc.to
    THEN [acc EXCEPT !.calls = @ + 1]
    ELSE add_dirty_each(BimultimapGet(connections, node), connections,
            [to |-> acc.to \cup {node},
             visits |-> Append(acc.visits, node),
             calls |-> acc.calls + 1])
add_dirty_each(dependents, connections, acc) ==
    IF dependents = {} THEN acc
    ELSE LET dependent_node == CHOOSE d \in dependents : TRUE
         IN add_dirty_each(dependents \ {dependent_node}, connections,
                add_dirty_tree(dependent_node, connections, acc))

\* The loop over changed_nodes.drain() that fills dirty_nodes.
RECURSIVE DirtyPass(_, _, _)
DirtyPass(changed, connections, acc) ==
    IF changed = {} THEN acc
    ELSE LET changed_node == CHOOSE c \in changed : TRUE
         IN DirtyPass(changed \ {changed_node}, connections,
                add_dirty_tree(changed_node, connections, acc))

DirtyNodes(changed, connections) ==
    DirtyPass(changed, connections, [to |-> {}, visits |-> << >>, calls |-> 0])

\* ------------------------------------------------ state
VARIABLES
    app,            \* "running", "panicked" (an expect failed), "exited"
    phase,          \* where update() is: "merge", "show", "dispatch"
    node_graph,     \* the Snarl<GraphNode> (inside show(): the taken graph)
    clear_graph,    \* GraphNodeViewer.clear_graph
    changed_nodes,  \* NoiseExplorerApp.changed_nodes
    dirty_nodes,    \* dirty_nodes of update(), drained by the dispatch loop
    slot_to_node,   \* SlotMap<NodeSlotKey, NodeId>
    counters,       \* the Arc<AtomicUsize> of every key still referenced
    request_chan,   \* requests sent and not yet received by the worker
    response_chan,  \* results sent and not yet received by update()
    worker,         \* the Recalculator thread: pc and the request it holds
    last,           \* the step taken last, with its operands and outcome
    budget          \* user interface events still to come

vars == <<app, phase, node_graph, clear_graph, changed_nodes, dirty_nodes,
          slot_to_node, counters, request_chan, response_chan, worker, last, budget>>

NoKey == [idx |-> 0, version |-> 0]
NoRequest == [node_id |-> NoKey, new_version |-> 0]
NoRange == << >>

Step(op, a, b, ver, res) == [op |-> op, a |-> a, b |-> b, ver |-> ver, res |-> res]

GraphNodeComputed(key, noise_type) ==
    [node_id_key |-> key,
     noise_type |-> noise_type,
     config |-> noise_type_config(noise_type),
     data_version |-> 1,
     noise_range |-> NoRange,
     config_version |-> key]

GraphNode(key, noise_type) ==
    [node_id_key |-> key,
     noise_type |-> noise_type,
     config |-> noise_type_config(noise_type),
     data_version |-> 0,
     noise_range |-> NoRange,
     config_version |-> key]

\* The counters some Arc still points to: those of the graph's nodes and of
\* the requests in the channel or in the worker's hands.
ArcsHeld(snarl, requests, w) ==
    {snarl.nodes[id].config_version : id \in DOMAIN snarl.nodes}
    \cup {requests[i].config_version : i \in 1..Len(requests)}
    \cup (IF w.pc = "compute" THEN {w.request.config_version} ELSE {})

DropArcs(heap, held) == [k \in (DOMAIN heap) \cap held |-> heap[k]]

SendFirst(chan, message) == <<message>> \o chan

\* std::sync::mpsc Sender::send on an open channel: the message joins the
\* queue behind those sent before it.
Send(chan, message) == Append(chan, message)

Init ==
    /\ app = "running"
    /\ phase = "merge"
    /\ node_graph = EmptySnarl
    /\ clear_graph = FALSE
    /\ changed_nodes = {}
    /\ dirty_nodes = {}
    /\ slot_to_node = EmptySlotMap
    /\ counters = << >>
    /\ request_chan = << >>
    /\ response_chan = << >>
    /\ worker = [pc |-> "recv", request |-> NoRequest]
    /\ last = Step("init", NoKey, NoKey, 0, "")
    /\ budget = MaxEvents

\* ------------------------------------------------ update(): the merge loop
\* The commit test of the merge loop.
VersionMatchesAlways(counter, response) == TRUE
VersionMatches(counter, response) == counter = response.new_version

MergeNodeUnchecked(node, counter, response) ==
    [node EXCEPT !.data_version = response.new_version,
                 !.noise_range = <<response.noise_min, response.noise_max>>]

\* The body of the merge loop for the node the key resolves to.
MergeNode(node, counter, response) ==
    IF VersionMatches(counter, response)
    THEN [node EXCEPT !.data_version = response.new_version,
                      !.noise_range = <<response.noise_min, response.noise_max>>]
    ELSE node

\* One iteration of `while let Ok(response) = try_recv()`.
MergeResult ==
    /\ UNCHANGED budget
    /\ app = "running" /\ phase = "merge" /\ response_chan # << >>
    /\ LET response == Head(response_chan)
           node_id == SlotMapGet(slot_to_node, response.node_id)
       IN /\ response_chan' = IF node_id # NoNode /\ node_id \notin DOMAIN node_graph.nodes
                              THEN << >> ELSE Tail(response_chan)
          /\ IF node_id = NoNode
             THEN \* the node was deleted in the mean time
                  /\ UNCHANGED <<app, node_graph>>
                  /\ last' = Step("merge", response.node_id, NoKey, response.new_version, "deleted")
             ELSE IF node_id \notin DOMAIN node_graph.nodes
             THEN \* expect("Didn't find node")
                  /\ app' = "panicked"
                  /\ UNCHANGED node_graph
                  /\ last' = Step("merge", response.node_id, NoKey, response.new_version, "panic")
             ELSE LET node == node_graph.nodes[node_id]
                      counter == counters[node.config_version]
                  IN /\ node_graph' = [node_graph EXCEPT !.nodes[node_id] =
                                            MergeNode(node, counter, response)]
                     /\ UNCHANGED app
                     /\ last' = Step("merge", response.node_id, node.node_id_key,
                                     response.new_version,
                                     IF VersionMatches(counter, response)
                                     THEN "commit" ELSE "stale")
    /\ UNCHANGED <<phase, clear_graph, changed_nodes, dirty_nodes, slot_to_node,
                   counters, request_chan, worker>>

\* try_recv finds nothing: update() goes on to show the graph.
MergeDone ==
    /\ UNCHANGED budget
    /\ app = "running" /\ phase = "merge" /\ response_chan = << >>
    /\ phase' = "show"
    /\ last' = Step("show", NoKey, NoKey, 0, "")
    /\ UNCHANGED <<app, node_graph, clear_graph, changed_nodes, dirty_nodes,
                   slot_to_node, counters, request_chan, response_chan, worker>>

\* ------------------------------------------------ the viewer's callbacks
NodeKey(id) == node_graph.nodes[id].node_id_key

\* add_noise_button, clicked.
AddNoise(noise_type) ==
    /\ app = "running" /\ phase = "show"
    /\ budget > 0 /\ budget' = budget - 1
    /\ LET key == SlotMapNextKey(slot_to_node)
           node_id == SnarlNextId(node_graph)
       IN /\ node_graph' = SnarlInsertNode(node_graph, GraphNode(key, noise_type))
          /\ slot_to_node' = SlotMapInsert(slot_to_node, node_id)
          /\ counters' = (key :> 0) @@ counters
          /\ changed_nodes' = changed_nodes \cup {key}
          /\ last' = Step("insert", key, NoKey, 0, noise_type)
    /\ UNCHANGED <<app, phase, clear_graph, dirty_nodes, request_chan, response_chan, worker>>

\* show_header, HeaderResponse::Remove.
RemoveNode(node) ==
    /\ app = "running" /\ phase = "show"
    /\ budget > 0 /\ budget' = budget - 1
    /\ node \in DOMAIN node_graph.nodes
    /\ LET node_key == NodeKey(node) IN
          /\ node_graph' = SnarlRemoveNode(node_graph, node)
          /\ slot_to_node' = SlotMapRemove(slot_to_node, node_key)
          /\ counters' = DropArcs(counters, ArcsHeld(node_graph', request_chan, worker))
          /\ last' = Step("remove", node_key, NoKey, 0, "")
    /\ UNCHANGED <<app, phase, clear_graph, changed_nodes, dirty_nodes,
                   request_chan, response_chan, worker>>

\* show_body: a slider moved the node's configuration.
EditConfig(node, value) ==
    /\ app = "running" /\ phase = "show"
    /\ budget > 0 /\ budget' = budget - 1
    /\ node \in DOMAIN node_graph.nodes
    /\ value \in SliderValues(node_graph.nodes[node].config)
    /\ value # node_graph.nodes[node].config.arg
    /\ node_graph' = [node_graph EXCEPT !.nodes[node].config.arg = value]
    /\ changed_nodes' = changed_nodes \cup {NodeKey(node)}
    /\ last' = Step("edit", NodeKey(node), NoKey, value, "")
    /\ UNCHANGED <<app, phase, clear_graph, dirty_nodes, slot_to_node, counters,
                   request_chan, response_chan, worker>>

\* The test of connect(): a wire from a node to itself is refused.
ConnectAcceptedAlways(from, to) == TRUE
ConnectAccepted(from, to) == from # to

\* The keys connect() marks changed: the in pin's node.
ConnectChanged(snarl, from, to) == {snarl.nodes[to].node_id_key}

\* The keys disconnect() marks changed: both ends, where they still exist.
DisconnectChangedConsumer(snarl, wire) ==
    IF wire.to \in DOMAIN snarl.nodes THEN {snarl.nodes[wire.to].node_id_key} ELSE {}
DisconnectChanged(snarl, wire) ==
    (IF wire.from \in DOMAIN snarl.nodes THEN {snarl.nodes[wire.from].node_id_key} ELSE {})
    \cup (IF wire.to \in DOMAIN snarl.nodes THEN {snarl.nodes[wire.to].node_id_key} ELSE {})

\* connect(from, to): an out pin dropped on an in pin.
Connect(from, to, input) ==
    /\ app = "running" /\ phase = "show"
    /\ budget > 0 /\ budget' = budget - 1
    /\ from \in DOMAIN node_graph.nodes /\ to \in DOMAIN node_graph.nodes
    /\ input \in 0..(input_count(node_graph.nodes[to].noise_type) - 1)
    /\ IF ConnectAccepted(from, to)
       THEN /\ node_graph' = [node_graph EXCEPT !.wires = @ \cup {Wire(from, to, input)}]
            /\ changed_nodes' = changed_nodes \cup ConnectChanged(node_graph', from, to)
            /\ last' = Step("connect", NodeKey(from), NodeKey(to), input, "connected")
       ELSE /\ UNCHANGED <<node_graph, changed_nodes>>
            /\ last' = Step("connect", NodeKey(from), NodeKey(to), input, "rejected")
    /\ UNCHANGED <<app, phase, clear_graph, dirty_nodes, slot_to_node, counters,
                   request_chan, response_chan, worker>>

\* disconnect(from, to): a wire pulled off its pins.
Disconnect(wire) ==
    /\ app = "running" /\ phase = "show"
    /\ budget > 0 /\ budget' = budget - 1
    /\ wire \in node_graph.wires
    /\ LET snarl == [node_graph EXCEPT !.wires = @ \ {wire}] IN
          /\ node_graph' = snarl
          /\ changed_nodes' = changed_nodes \cup DisconnectChanged(snarl, wire)
          /\ last' = Step("disconnect", NodeKey(wire.from), NodeKey(wire.to), wire.input, "")
    /\ UNCHANGED <<app, phase, clear_graph, dirty_nodes, slot_to_node, counters,
                   request_chan, response_chan, worker>>

\* show_graph_menu: "Clear All" clicked.
ClearAll ==
    /\ app = "running" /\ phase = "show"
    /\ budget > 0 /\ budget' = budget - 1
    /\ ~clear_graph
    /\ clear_graph' = TRUE
    /\ last' = Step("clear", NoKey, NoKey, 0, "")
    /\ UNCHANGED <<app, phase, node_graph, changed_nodes, dirty_nodes, slot_to_node,
                   counters, request_chan, response_chan, worker>>

\* ------------------------------------------------ update(): after show()
\* The end of the CentralPanel closure up to the dispatch loop: a cleared
\* graph is not put back, and a non-empty changed set is drained into the
\* dirty set.
Propagate ==
    /\ UNCHANGED budget
    /\ app = "running" /\ phase = "show"
    /\ LET snarl == IF clear_graph THEN EmptySnarl ELSE node_graph IN
          /\ node_graph' = snarl
          /\ dirty_nodes' = DirtyNodes(changed_nodes, Connections(snarl)).to
          /\ counters' = DropArcs(counters, ArcsHeld(snarl, request_chan, worker))
    /\ clear_graph' = FALSE
    /\ changed_nodes' = {}
    /\ phase' = IF changed_nodes = {} THEN "merge" ELSE "dispatch"
    /\ last' = Step("propagate", NoKey, NoKey, 0, IF clear_graph THEN "cleared" ELSE "")
    /\ UNCHANGED <<app, slot_to_node, request_chan, response_chan, worker>>

\* AtomicUsize::fetch_add(1) + 1.
FetchAddNone(counter) == counter
FetchAdd(counter) == counter + 1

NoiseExtent == 10

RecalculateRequest(dirty_node, node, new_version) ==
    [node_id |-> dirty_node,
     new_version |-> new_version,
     config_version |-> node.config_version,
     noise_fn |-> RequestNoiseFn(node),
     texture_height |-> TextureSize,
     texture_width |-> TextureSize,
     noise_width |-> NoiseExtent,
     noise_height |-> NoiseExtent]

\* One iteration of `for dirty_node in dirty_nodes.drain()`.
Dispatch(dirty_node) ==
    /\ UNCHANGED budget
    /\ app = "running" /\ phase = "dispatch"
    /\ dirty_node \in dirty_nodes
    /\ LET node_id == SlotMapGet(slot_to_node, dirty_node) IN
       IF node_id = NoNode \/ node_id \notin DOMAIN node_graph.nodes
       THEN \* expect("Didn't find node") / expect("Didn't find node in graph")
            /\ app' = "panicked"
            /\ response_chan' = << >>
            /\ last' = Step("dispatch", dirty_node, NoKey, 0, "panic")
            /\ UNCHANGED <<phase, dirty_nodes, counters, request_chan>>
       ELSE LET node == node_graph.nodes[node_id]
                new_version == FetchAdd(counters[node.config_version])
            IN /\ counters' = [counters EXCEPT ![node.config_version] = new_version]
               /\ request_chan' = Send(request_chan,
                                       RecalculateRequest(dirty_node, node, new_version))
               /\ dirty_nodes' = dirty_nodes \ {dirty_node}
               /\ phase' = IF dirty_nodes \ {dirty_node} = {} THEN "merge" ELSE "dispatch"
               /\ last' = Step("dispatch", dirty_node, node.node_id_key, new_version, "sent")
               /\ UNCHANGED <<app, response_chan>>
    /\ UNCHANGED <<node_graph, clear_graph, changed_nodes, slot_to_node, worker>>

\* The window is closed between two frames: both channel ends of the app
\* are dropped.
Exit ==
    /\ UNCHANGED budget
    /\ app = "running" /\ phase = "merge"
    /\ app' = "exited"
    /\ response_chan' = << >>
    /\ last' = Step("exit", NoKey, NoKey, 0, "")
    /\ UNCHANGED <<phase, node_graph, clear_graph, changed_nodes, dirty_nodes,
                   slot_to_node, counters, request_chan, worker>>

\* ------------------------------------------------ recalculator_thread
\* recv() returns a request; the worker tests it against the shared counter.
WorkerRecv ==
    /\ UNCHANGED budget
    /\ worker.pc = "recv" /\ request_chan # << >>
    /\ LET request == Head(request_chan) IN
          /\ request_chan' = Tail(request_chan)
          /\ IF Superseded(counters[request.config_version], request)
             THEN /\ worker' = worker
                  /\ last' = Step("recv", request.node_id, NoKey, request.new_version, "skipped")
             ELSE /\ worker' = [pc |-> "compute", request |-> request]
                  /\ last' = Step("recv", request.node_id, NoKey, request.new_version, "taken")
          /\ counters' = DropArcs(counters, ArcsHeld(node_graph, request_chan', worker'))
    /\ UNCHANGED <<app, phase, node_graph, clear_graph, changed_nodes, dirty_nodes,
                   slot_to_node, response_chan>>

WorkerSendCommits ==
    /\ UNCHANGED budget
    /\ worker.pc = "compute"
    /\ worker' = [pc |-> "recv", request |-> NoRequest]
    /\ response_chan' = IF app = "running"
                        THEN Send(response_chan, Recalculate(worker.request))
                        ELSE response_chan
    /\ node_graph' = [node_graph EXCEPT !.nodes =
            [id \in DOMAIN node_graph.nodes |->
                IF node_graph.nodes[id].node_id_key = worker.request.node_id
                THEN [node_graph.nodes[id] EXCEPT !.data_version = worker.request.new_version]
                ELSE node_graph.nodes[id]]]
    /\ counters' = DropArcs(counters, ArcsHeld(node_graph, request_chan, worker'))
    /\ last' = Step("send", worker.request.node_id, NoKey, worker.request.new_version,
                    IF app = "running" THEN "sent" ELSE "closed")
    /\ UNCHANGED <<app, phase, clear_graph, changed_nodes, dirty_nodes,
                   slot_to_node, request_chan>>

\* The sampling is done; response_tx.send succeeds while the app holds the
\* receiver.
WorkerSend ==
    /\ UNCHANGED budget
    /\ worker.pc = "compute"
    /\ worker' = [pc |-> "recv", request |-> NoRequest]
    /\ response_chan' = IF app = "running"
                        THEN Send(response_chan, Recalculate(worker.request))
                        ELSE response_chan
    /\ counters' = DropArcs(counters, ArcsHeld(node_graph, request_chan, worker'))
    /\ last' = Step("send", worker.request.node_id, NoKey, worker.request.new_version,
                    IF app = "running" THEN "sent" ELSE "closed")
    /\ UNCHANGED <<app, phase, node_graph, clear_graph, changed_nodes, dirty_nodes,
                   slot_to_node, request_chan>>

WorkerBlocks ==
    /\ worker.pc = "recv" /\ request_chan = << >> /\ app # "running"
    /\ UNCHANGED vars

\* recv() fails: the sender is dropped and the channel is empty.
WorkerExit ==
    /\ UNCHANGED budget
    /\ worker.pc = "recv" /\ request_chan = << >> /\ app # "running"
    /\ worker' = [pc |-> "exited", request |-> NoRequest]
    /\ last' = Step("worker exit", NoKey, NoKey, 0, "")
    /\ UNCHANGED <<app, phase, node_graph, clear_graph, changed_nodes, dirty_nodes,
                   slot_to_node, counters, request_chan, response_chan>>

\* ------------------------------------------------ the program
\* The in pins a wire is dropped on in the model (Max has two, Blend three).
Inputs == 0..2

Next ==
    \/ MergeResult
    \/ MergeDone
    \/ \E noise_type \in PaletteTypes : AddNoise(noise_type)
    \/ \E node \in DOMAIN node_graph.nodes : RemoveNode(node)
    \/ \E node \in DOMAIN node_graph.nodes, value \in {0, DefaultSeed, DefaultValue} :
            EditConfig(node, value)
    \/ \E from \in DOMAIN node_graph.nodes, to \in DOMAIN node_graph.nodes, input \in Inputs :
            Connect(from, to, input)
    \/ ClearAll
    \/ Propagate
    \/ \E dirty_node \in dirty_nodes : Dispatch(dirty_node)
    \/ Exit
    \/ WorkerRecv
    \/ WorkerSend
    \/ WorkerExit

Spec == Init /\ [][Next]_vars

\* The Recalculator is a thread of its own: the operating system keeps
\* scheduling it while it has a step to take.
Recalculator == WorkerRecv \/ WorkerSend \/ WorkerExit

SpecFair == Spec /\ WF_vars(Recalculator)

\* ------------------------------------------------ a graph of four nodes
\* SpecGraph starts where a Constant (node 0) and three Max nodes (1, 2, 3)
\* were added in one frame and merged at version 1, the wires of the graph
\* were then connected in one frame, which dispatched every node a wire
\* touches at version 2, those results were merged too, and update() is
\* showing the graph again.
GraphTypes == <<"Constant", "Max", "Max", "Max">>

\* The wires a starting graph is drawn from: they hold the chains 0-1-2,
\* 0-1-3 and 1-2-3, the diamond 0-1-3 / 0-2-3 and the cycle 1-2-1.
CandidateWires ==
    {Wire(0, 1, 0), Wire(0, 2, 0), Wire(1, 2, 0), Wire(2, 1, 0), Wire(1, 3, 0), Wire(2, 3, 0)}

StartWires == {W \in SUBSET CandidateWires : Cardinality(W) <= MaxWires}

Touched(W, id) == \E w \in W : w.from = id \/ w.to = id

SettledNode(W, id) ==
    LET key == [idx |-> id + 1, version |-> 1]
        node == GraphNode(key, GraphTypes[id + 1])
        version == IF Touched(W, id) THEN 2 ELSE 1
        result == Recalculate(RecalculateRequest(key, node, version))
    IN [node EXCEPT !.data_version = version,
                    !.noise_range = <<result.noise_min, result.noise_max>>]

InitGraph ==
    /\ app = "running"
    /\ phase = "show"
    /\ \E W \in StartWires :
          /\ node_graph = [nodes |-> [id \in 0..3 |-> SettledNode(W, id)],
                           len |-> 4, vacant |-> << >>, wires |-> W]
          /\ counters = [k \in {[idx |-> id + 1, version |-> 1] : id \in 0..3} |->
                            IF Touched(W, k.idx - 1) THEN 2 ELSE 1]
    /\ clear_graph = FALSE
    /\ changed_nodes = {}
    /\ dirty_nodes = {}
    /\ slot_to_node = [slots |-> [i \in 1..4 |-> [version |-> 1, value |-> i - 1]],
                       free |-> << >>]
    /\ request_chan = << >>
    /\ response_chan = << >>
    /\ worker = [pc |-> "recv", request |-> NoRequest]
    /\ last = Step("init", NoKey, NoKey, 0, "")
    /\ budget = MaxGraphEvents

\* One frame: the user edits and rewires the graph, then update() propagates
\* and dispatches; the worker is not scheduled.
NextGraph ==
    \/ \E node \in DOMAIN node_graph.nodes, value \in {0, DefaultValue} :
            EditConfig(node, value)
    \/ \E from \in DOMAIN node_graph.nodes, to \in DOMAIN node_graph.nodes, input \in Inputs :
            Connect(from, to, input)
    \/ \E wire \in node_graph.wires : Disconnect(wire)
    \/ \E node \in DOMAIN node_graph.nodes : RemoveNode(node)
    \/ Propagate
    \/ \E dirty_node \in dirty_nodes : Dispatch(dirty_node)

SpecGraph == InitGraph /\ [][NextGraph]_vars

\* ------------------------------------------------ a pool of workers
\* SpecPool runs NumWorkers threads of recalculator_thread on the one request
\* queue: requests are picked up in queue order, each thread makes the test
\* of line 77 at pickup, and the threads finish in any order. `worker` holds
\* the requests being computed.
NumWorkers == 2

InitPool ==
    /\ app = "running"
    /\ phase = "merge"
    /\ node_graph = EmptySnarl
    /\ clear_graph = FALSE
    /\ changed_nodes = {}
    /\ dirty_nodes = {}
    /\ slot_to_node = EmptySlotMap
    /\ counters = << >>
    /\ request_chan = << >>
    /\ response_chan = << >>
    /\ worker = [pc |-> "pool", request |-> NoRequest, held |-> {}]
    /\ last = Step("init", NoKey, NoKey, 0, "")
    /\ budget = MaxEvents

\* A free thread's recv() returns a request and tests it.
PoolRecv ==
    /\ UNCHANGED budget
    /\ Cardinality(worker.held) < NumWorkers /\ request_chan # << >>
    /\ LET request == Head(request_chan) IN
          /\ request_chan' = Tail(request_chan)
          /\ IF Superseded(counters[request.config_version], request)
             THEN /\ worker' = worker
                  /\ last' = Step("recv", request.node_id, NoKey, request.new_version, "skipped")
             ELSE /\ worker' = [worker EXCEPT !.held = @ \cup {request}]
                  /\ last' = Step("recv", request.node_id, NoKey, request.new_version, "taken")
    /\ UNCHANGED <<app, phase, node_graph, clear_graph, changed_nodes, dirty_nodes,
                   slot_to_node, counters, response_chan>>

\* One of the busy threads finishes and sends its result.
PoolSend(request) ==
    /\ UNCHANGED budget
    /\ request \in worker.held
    /\ worker' = [worker EXCEPT !.held = @ \ {request}]
    /\ response_chan' = Send(response_chan, Recalculate(request))
    /\ last' = Step("send", request.node_id, NoKey, request.new_version, "sent")
    /\ UNCHANGED <<app, phase, node_graph, clear_graph, changed_nodes, dirty_nodes,
                   slot_to_node, counters, request_chan>>

NextPool ==
    \/ MergeResult
    \/ MergeDone
    \/ \E noise_type \in PaletteTypes : AddNoise(noise_type)
    \/ \E node \in DOMAIN node_graph.nodes, value \in {0, DefaultValue} :
            EditConfig(node, value)
    \/ Propagate
    \/ \E dirty_node \in dirty_nodes : Dispatch(dirty_node)
    \/ PoolRecv
    \/ \E request \in worker.held : PoolSend(request)

SpecPool == InitPool /\ [][NextPool]_vars

\* ------------------------------------------------ properties
\* The nodes a step keeps: same id, same stable key.
KeptNodes ==
    {id \in (DOMAIN node_graph.nodes) \cap (DOMAIN node_graph'.nodes) :
        node_graph'.nodes[id].node_id_key = node_graph.nodes[id].node_id_key}

Committed(node) == <<node.data_version, node.noise_range>>

\* A node at version v + 2 with that version's result committed, and a
\* result for v + 1 fed to the merge afterwards.
LateResultRejected ==
    \A v \in 0..MaxEvents, key \in {[idx |-> 1, version |-> 1]} :
        LET node == [GraphNode(key, "Constant") EXCEPT !.data_version = v + 2,
                                                       !.noise_range = <<0, 0>>]
            late == [node_id |-> key, new_version |-> v + 1,
                     noise_min |-> ConstantHalf, noise_max |-> ConstantHalf]
        IN MergeNode(node, v + 2, late) = node

\* C1: the merge loop commits a drained result to the node its key resolves
\* to exactly when the result's new_version equals the node's config_version
\* at that moment: then data_version and noise_range become the result's;
\* otherwise the graph is left as it was. Nothing but such a commit changes
\* what a node shows, and a result for v + 1 that reaches the merge after
\* v + 2 was committed leaves the node at v + 2.
C1_CommitOnlyOnVersionMatch ==
    [][ /\ LateResultRejected
        /\ \A id \in KeptNodes :
              Committed(node_graph'.nodes[id]) # Committed(node_graph.nodes[id])
              => /\ phase = "merge" /\ response_chan # << >>
                 /\ SlotMapGet(slot_to_node, Head(response_chan).node_id) = id
                 /\ counters[node_graph.nodes[id].config_version]
                        = Head(response_chan).new_version
        /\ last'.op = "merge" /\ last'.res \in {"commit", "stale"}
           => LET response == Head(response_chan)
                  id == SlotMapGet(slot_to_node, response.node_id)
                  node == node_graph.nodes[id]
              IN IF counters[node.config_version] = response.new_version
                 THEN /\ node_graph'.nodes[id].data_version = response.new_version
                      /\ node_graph'.nodes[id].noise_range
                            = <<response.noise_min, response.noise_max>>
                      /\ last'.res = "commit"
                 ELSE /\ node_graph' = node_graph
                      /\ last'.res = "stale"
      ]_vars

\* A result was drained for a live node whose config_version had moved on,
\* and it was discarded.
C1_Witness ==
    /\ last.op = "merge" /\ last.res = "stale"
    /\ \E id \in DOMAIN node_graph.nodes :
          /\ node_graph.nodes[id].node_id_key = last.a
          /\ counters[node_graph.nodes[id].config_version] > last.ver

\* The evaluation capability a Constant configuration implies:
\* noise::Constant::new(value).
ConfigNoiseFn(node) == [kind |-> "Constant", value |-> node.config.arg]

\* The range the worker's sampling yields for that capability.
ConfigRange(node) ==
    LET result == Recalculate([RecalculateRequest(node.node_id_key, node, node.data_version)
                                  EXCEPT !.noise_fn = ConfigNoiseFn(node)])
    IN <<result.noise_min, result.noise_max>>

\* No edit is pending and the request queue, the worker and the result
\* queue have drained.
Drained ==
    /\ app = "running"
    /\ changed_nodes = {} /\ dirty_nodes = {} /\ ~clear_graph
    /\ request_chan = << >> /\ worker.pc = "recv" /\ response_chan = << >>

\* Once drained, every live node shows the version stamped last.
DrainedAtLastVersion ==
    Drained =>
        \A id \in DOMAIN node_graph.nodes :
            node_graph.nodes[id].data_version
                = counters[node_graph.nodes[id].config_version]

\* C2: once the edits have stopped and the request queue, the worker and the
\* result queue have drained, every live node has data_version equal to
\* config_version, and what it shows is the evaluation of its last
\* configuration (for a Constant node: the range of its value).
C2_DrainedShowsLastConfig ==
    Drained =>
        \A id \in DOMAIN node_graph.nodes :
            LET node == node_graph.nodes[id] IN
            /\ node.data_version = counters[node.config_version]
            /\ node.config.tag = "Constant" => node.noise_range = ConfigRange(node)

\* C3: a live node whose committed version is the one stamped last, and
\* whose configuration was not edited since, shows the value computed from
\* that configuration (for a Constant node: the range of its value); and the
\* request a dispatch builds carries the evaluation capability of the
\* node's configuration.
C3_ResultOfStampedConfig ==
    /\ \A id \in DOMAIN node_graph.nodes :
          LET node == node_graph.nodes[id] IN
          /\ node.data_version > 0
          /\ node.data_version = counters[node.config_version]
          /\ node.node_id_key \notin changed_nodes \cup dirty_nodes
          /\ node.config.tag = "Constant"
          => node.noise_range = ConfigRange(node)
    /\ \A i \in 1..Len(request_chan) :
          \A id \in DOMAIN node_graph.nodes :
              LET node == node_graph.nodes[id] IN
              /\ node.node_id_key = request_chan[i].node_id
              /\ request_chan[i].new_version = counters[node.config_version]
              /\ node.node_id_key \notin changed_nodes \cup dirty_nodes
              /\ node.config.tag = "Constant"
              => request_chan[i].noise_fn = ConfigNoiseFn(node)

\* The producer -> consumer edges of a graph, by stable key.
ConsumerEdges(snarl) ==
    {<<snarl.nodes[w.from].node_id_key, snarl.nodes[w.to].node_id_key>> : w \in snarl.wires}

\* The keys of S and every key reachable from them along the edges.
RECURSIVE Reachable(_, _)
Reachable(S, edges) ==
    LET more == S \cup {e[2] : e \in {f \in edges : f[1] \in S}}
    IN IF more = S THEN S ELSE Reachable(more, edges)

KeyOf(id) == [idx |-> id + 1, version |-> 1]

\* C4: the dirty set of an update cycle is the changed keys together with
\* their transitive consumers and nothing else: with wires A -> B -> C,
\* changed {A} gives {A, B, C} and changed {C} gives {C}.
C4_DirtyIsConsumerClosure ==
    [][ last'.op = "propagate"
        => dirty_nodes' = Reachable(changed_nodes, ConsumerEdges(node_graph')) ]_vars

DiamondWires == {Wire(0, 1, 0), Wire(0, 2, 0), Wire(1, 3, 0), Wire(2, 3, 0)}

RequestsFor(requests, key) ==
    Cardinality({i \in 1..Len(requests) : requests[i].node_id = key})

\* C5: in the diamond A -> B, A -> C, B -> D, C -> D a changed set {A} gives
\* the dirty set {A, B, C, D}, and the pass processes each dirty node once:
\* one increment of its config_version and one request enqueued.
C5_DiamondDirtyOnce ==
    [][ /\ last'.op = "propagate" /\ node_graph'.wires = DiamondWires
           /\ changed_nodes = {KeyOf(0)}
           => dirty_nodes' = {KeyOf(0), KeyOf(1), KeyOf(2), KeyOf(3)}
        /\ last'.op = "dispatch" /\ last'.res = "sent"
           => /\ counters'[last'.a] = counters[last'.a] + 1
              /\ RequestsFor(request_chan', last'.a) = RequestsFor(request_chan, last'.a) + 1
              /\ last'.a \notin dirty_nodes'
      ]_vars

NoDuplicates(seq) == \A i, j \in 1..Len(seq) : seq[i] = seq[j] => i = j

\* C6: dirty propagation terminates on every edge set, cycles included: a
\* pass makes at most one call per changed key and per connection, enters
\* each node at most once, its result holds the changed keys and is closed
\* under Bimultimap::get, and with the wires A -> B and B -> A alone a
\* change of A alone gives exactly {A, B}.
C6_PropagationTerminates ==
    [][ last'.op = "propagate"
        => LET connections == Connections(node_graph')
               pass == DirtyNodes(changed_nodes, connections)
           IN /\ dirty_nodes' = pass.to
              /\ NoDuplicates(pass.visits)
              /\ pass.calls <= Cardinality(changed_nodes) + Cardinality(connections)
              /\ changed_nodes \subseteq pass.to
              /\ \A c \in connections : c[1] \in pass.to => c[2] \in pass.to
              /\ \A a, b \in {NodeKey(id) : id \in DOMAIN node_graph.nodes} :
                    /\ a # b
                    /\ connections = {<<a, b>>, <<b, a>>}
                    /\ changed_nodes = {a}
                    => dirty_nodes' = {a, b}
      ]_vars

\* The graph holds the cycle 1 -> 2 -> 1 alone, one event marked one of the
\* two nodes, and the pass has ended with both dirty.
C6_Witness ==
    /\ last.op = "propagate"
    /\ node_graph.wires = {Wire(1, 2, 0), Wire(2, 1, 0)}
    /\ budget = MaxGraphEvents - 1
    /\ dirty_nodes = {KeyOf(1), KeyOf(2)}

InFlightKeys ==
    {request_chan[i].node_id : i \in 1..Len(request_chan)}
        \cup {response_chan[i].node_id : i \in 1..Len(response_chan)}
        \cup (IF worker.request = NoRequest THEN {} ELSE {worker.request.node_id})

\* C7: a request or result in flight for a removed node is harmless. The
\* worker decides the pickup of such a request by the version counter alone,
\* a result whose key no longer resolves is discarded with the graph and the
\* application untouched, and a key in flight that stopped resolving never
\* resolves again, whatever node is inserted afterwards.
C7_RemovedNodeResultDiscarded ==
    [][ /\ last'.op = "merge" /\ last'.res = "deleted"
           => /\ ~SlotMapContains(slot_to_node, last'.a)
              /\ node_graph' = node_graph
              /\ app' = app
              /\ slot_to_node' = slot_to_node
        /\ last'.op = "recv" /\ ~SlotMapContains(slot_to_node, last'.a)
           => /\ last'.res = "taken" <=> counters[last'.a] = last'.ver
              /\ app' = app
              /\ node_graph' = node_graph
        /\ last'.op = "remove" => ~SlotMapContains(slot_to_node', last'.a)
        /\ \A key \in InFlightKeys :
              ~SlotMapContains(slot_to_node, key) => ~SlotMapContains(slot_to_node', key)
      ]_vars

\* A result was discarded for a key whose slot a later node took over.
C7_Witness ==
    /\ last.op = "merge"
    /\ last.res = "deleted"
    /\ app = "running"
    /\ \E id \in DOMAIN node_graph.nodes :
          /\ NodeKey(id).idx = last.a.idx
          /\ NodeKey(id) # last.a

\* C8: removing a wire marks both of its endpoints changed, the producer and
\* the consumer; adding a wire marks the consumer alone.
C8_WireChangeMarks ==
    [][ /\ last'.op = "disconnect"
           => changed_nodes' = changed_nodes \cup {last'.a, last'.b}
        /\ last'.op = "connect" /\ last'.res = "connected"
           => changed_nodes' = changed_nodes \cup {last'.b}
      ]_vars

\* A wire between two different nodes was removed and both are marked.
C8_Witness ==
    /\ last.op = "disconnect"
    /\ last.a # last.b
    /\ changed_nodes = {last.a, last.b}

\* C9: a connection from a node to itself is rejected: the graph never
\* holds a wire whose two ends are the same node, and the attempt changes
\* neither the graph nor the changed set.
C9_NoSelfLoop ==
    [][ /\ \A w \in node_graph'.wires : w.from # w.to
        /\ last'.op = "connect" /\ last'.a = last'.b
           => /\ last'.res = "rejected"
              /\ node_graph' = node_graph
              /\ changed_nodes' = changed_nodes
      ]_vars

\* A connection of a node to itself was attempted and refused.
C9_Witness ==
    /\ last.op = "connect"
    /\ last.res = "rejected"
    /\ last.a = last.b
    /\ \A w \in node_graph.wires : w.from # w.to

\* C10: the worker computes a request only if the node's counter equals the
\* request's version at pickup; otherwise it drops the request, computes
\* nothing and sends no result. Every result sent is the one of the request
\* the worker took.
C10_SupersededSkipped ==
    [][ /\ last'.op = "recv"
           => LET request == Head(request_chan) IN
              /\ request_chan' = Tail(request_chan)
              /\ response_chan' = response_chan
              /\ IF counters[request.node_id] = request.new_version
                    THEN /\ last'.res = "taken"
                         /\ worker'.pc = "compute"
                         /\ worker'.request = request
                    ELSE /\ last'.res = "skipped"
                         /\ worker' = worker
        /\ Len(response_chan') > Len(response_chan)
           => /\ worker.pc = "compute"
              /\ response_chan' = Append(response_chan, Recalculate(worker.request))
      ]_vars

\* The worker picked up a request that a later dispatch had superseded.
C10_Witness ==
    /\ last.op = "recv"
    /\ last.res = "skipped"
    /\ counters[last.a] > last.ver

Stamp(message) == <<message.node_id, message.new_version>>

Stamps(chan) == [i \in 1..Len(chan) |-> Stamp(chan[i])]

\* Everything in flight, oldest first: the results not yet merged, the
\* request in the worker's hands, the requests not yet received.
Pipeline ==
    Stamps(response_chan)
        \o (IF worker.pc = "compute" THEN <<Stamp(worker.request)>> ELSE << >>)
        \o Stamps(request_chan)

Position(seq, x) == CHOOSE i \in 1..Len(seq) : seq[i] = x

Range(seq) == {seq[i] : i \in 1..Len(seq)}

\* C11: results reach the merge in the order their requests were enqueued.
\* No step reorders two messages in flight, a dispatched request goes
\* behind everything in flight, the merge takes the oldest message, and a
\* skipped request leaves the others in their order.
C11_ResultsInSubmissionOrder ==
    [][ LET old == Pipeline
            new == Pipeline'
        IN /\ NoDuplicates(old)
           /\ \A x, y \in Range(old) \cap Range(new) :
                 Position(old, x) < Position(old, y) => Position(new, x) < Position(new, y)
           /\ \A x \in Range(new) \ Range(old) :
                 /\ last'.op = "dispatch"
                 /\ x = <<last'.a, last'.ver>>
                 /\ Position(new, x) = Len(new)
           /\ last'.op = "merge" => /\ <<last'.a, last'.ver>> = old[1]
                                    /\ app' = "running" => new = Tail(old)
           /\ last'.op = "recv" /\ last'.res = "skipped"
                 => \E i \in 1..Len(old) :
                       /\ old[i] = <<last'.a, last'.ver>>
                       /\ new = [j \in 1..(Len(old) - 1) |-> IF j < i THEN old[j] ELSE old[j + 1]]
           /\ last'.op \in {"send", "recv"} /\ last'.res \in {"sent", "taken"} => new = old
      ]_vars

\* A superseded request was skipped between a result waiting for the merge
\* and a request waiting for the worker.
C11_Witness ==
    /\ last.op = "recv"
    /\ last.res = "skipped"
    /\ response_chan # << >>
    /\ request_chan # << >>

\* C12: the worker's test at pickup is the only cancellation point. A
\* request that passed it is computed and its result sent even if the node
\* was stamped again meanwhile; the newer request is then waiting in the
\* request channel, and the merge discards the old result without an error
\* and without a change to any node.
C12_CancelOnlyAtPickup ==
    [][ /\ worker.pc = "compute"
           => /\ counters[worker.request.config_version] > worker.request.new_version
                 => \E i \in 1..Len(request_chan) :
                       Stamp(request_chan[i])
                           = <<worker.request.node_id, counters[worker.request.config_version]>>
              /\ worker' # worker
                 => /\ last'.op = "send"
                    /\ app = "running"
                       => response_chan' = Append(response_chan, Recalculate(worker.request))
        /\ last'.op = "merge" /\ last'.res = "stale"
           => /\ node_graph' = node_graph
              /\ app' = app
              /\ counters' = counters
      ]_vars

\* The worker has sent the result of a request that was superseded while
\* it was being computed.
C12_Witness ==
    /\ last.op = "send"
    /\ last.res = "sent"
    /\ last.a \in DOMAIN counters
    /\ counters[last.a] = last.ver + 1
    /\ \E i \in 1..Len(request_chan) : Stamp(request_chan[i]) = <<last.a, last.ver + 1>>
    /\ Stamp(response_chan[Len(response_chan)]) = <<last.a, last.ver>>

PoolDrained ==
    /\ request_chan = << >>
    /\ response_chan = << >>
    /\ worker.held = {}
    /\ changed_nodes = {}
    /\ dirty_nodes = {}

\* The state a node shows once the request stamped with its counter is merged.
LastStamped(node, counter) ==
    LET result == Recalculate(RecalculateRequest(node.node_id_key, node, counter))
    IN <<counter, <<result.noise_min, result.noise_max>>>>

\* C13: with NumWorkers threads finishing in any order the version test of
\* the merge alone keeps the nodes right: a node's committed state changes
\* only to a result whose version is the node's counter at that moment, a
\* result merged after a newer one was committed changes nothing, and once
\* all work has drained every node shows the result of its last stamped
\* request, as with one worker.
C13_PoolNeedsNoOrder ==
    [][ /\ \A id \in KeptNodes :
              Committed(node_graph'.nodes[id]) # Committed(node_graph.nodes[id])
              => /\ last'.op = "merge"
                 /\ last'.ver = counters[node_graph.nodes[id].config_version]
                 /\ node_graph'.nodes[id].data_version = last'.ver
        /\ last'.op = "merge" /\ last'.ver # counters[last'.a] => node_graph' = node_graph
        /\ PoolDrained'
           => \A id \in DOMAIN node_graph'.nodes :
                 LET node == node_graph'.nodes[id] IN
                 /\ node.data_version = counters'[node.config_version]
                 /\ Committed(node) = LastStamped(node, counters'[node.config_version])
      ]_vars

\* The threads finished out of order: the result of an older request was
\* merged after the newer one had been committed, and the work has drained.
C13_Witness ==
    /\ last.op = "merge"
    /\ last.res = "stale"
    /\ PoolDrained
    /\ \E id \in DOMAIN node_graph.nodes :
          /\ NodeKey(id) = last.a
          /\ node_graph.nodes[id].data_version > last.ver

\* C14: a stable key that does not resolve is never an error. The merge
\* skips a result whose key is absent, and the dispatch skips a dirty key
\* that no longer resolves: no panic and no request enqueued for it.
C14_LookupMissSkipped ==
    [][ /\ last'.op = "merge" /\ ~SlotMapContains(slot_to_node, last'.a)
           => /\ app' = "running"
              /\ node_graph' = node_graph
        /\ last'.op = "dispatch" /\ ~SlotMapContains(slot_to_node, last'.a)
           => /\ app' = "running"
              /\ request_chan' = request_chan
      ]_vars

\* C15: a failed send stops the sender without an error: after the worker's
\* send on the result channel has failed the worker computes nothing more,
\* and the failure itself leaves the application as it was.
C15_SendFailureStopsSender ==
    [][ /\ last.op = "send" /\ last.res = "closed" => worker'.pc # "compute"
        /\ last'.op = "send" /\ last'.res = "closed" => app' = app
      ]_vars

\* The keys of the nodes that take an input from the node with this key.
ConsumersOf(snarl, key) ==
    {snarl.nodes[w.to].node_id_key : w \in {x \in snarl.wires :
                                              snarl.nodes[x.from].node_id_key = key}}

\* C16: every mutation that can change a surviving node's output marks that
\* node changed before the next dispatch: an insert marks the new node, an
\* edit the edited node, a connect the consumer, a disconnect both ends and
\* a remove every former consumer of the removed node; and the changed set
\* is empty when the update cycle has drained it.
C16_MutationsMarkChanged ==
    [][ /\ last'.op \in {"insert", "edit"} => last'.a \in changed_nodes'
        /\ last'.op = "connect" /\ last'.res = "connected" => last'.b \in changed_nodes'
        /\ last'.op = "disconnect" => {last'.a, last'.b} \subseteq changed_nodes'
        /\ last'.op = "remove" => ConsumersOf(node_graph, last'.a) \subseteq changed_nodes'
        /\ last'.op = "propagate" => changed_nodes' = {}
      ]_vars

\* C17: for every live node data_version is 0 or a version the dispatcher
\* stamped for the node: one of the values 1 .. config_version that its
\* counter went through.
C17_DataVersionWasStamped ==
    \A id \in DOMAIN node_graph.nodes :
        LET node == node_graph.nodes[id] IN
        \/ node.data_version = 0
        \/ node.data_version \in 1..counters[node.config_version]

\* A node shows the result of a version stamped before its current one.
C17_Witness ==
    \E id \in DOMAIN node_graph.nodes :
        LET node == node_graph.nodes[id] IN
        /\ node.data_version > 0
        /\ node.data_version < counters[node.config_version]

\* C18: version stamps are monotonic and unique per node. A dispatch raises
\* the node's counter by exactly 1 and issues the raised value as
\* new_version; no other step changes a counter; the messages in flight for
\* one node carry strictly increasing versions in submission order, and at
\* most one of them carries the node's current config_version.
C18_StampsMonotonicUnique ==
    [][ /\ last'.op = "dispatch" /\ last'.res = "sent"
           => /\ counters'[last'.a] = counters[last'.a] + 1
              /\ last'.ver = counters'[last'.a]
              /\ request_chan' # << >>
              /\ Stamp(request_chan'[Len(request_chan')]) = <<last'.a, last'.ver>>
        /\ \A key \in (DOMAIN counters) \cap (DOMAIN counters') :
              /\ counters'[key] >= counters[key]
              /\ counters'[key] # counters[key]
                 => last'.op = "dispatch" /\ last'.a = key
        /\ LET flight == Pipeline' IN
           /\ \A i, j \in 1..Len(flight) :
                 i < j /\ flight[i][1] = flight[j][1] => flight[i][2] < flight[j][2]
           /\ \A key \in DOMAIN counters' :
                 Cardinality({i \in 1..Len(flight) :
                                 flight[i] = <<key, counters'[key]>>}) <= 1
      ]_vars

\* Two requests for one node wait in the request channel, the second
\* stamped one above the first.
C18_Witness ==
    /\ last.op = "dispatch"
    /\ Len(request_chan) >= 2
    /\ \E i \in 1..(Len(request_chan) - 1) :
          /\ request_chan[i].node_id = last.a
          /\ request_chan[i].new_version + 1 = last.ver
          /\ Stamp(request_chan[Len(request_chan)]) = <<last.a, last.ver>>

WorkerSteps == {"recv", "send", "worker exit"}

\* C19: the worker owns no graph state. Its steps (pickup with the
\* staleness test, the computation and the send, the exit) leave the node
\* records, the wires, the key table, the changed and dirty sets and the
\* value of every counter as they were; a counter's value is written by the
\* dispatch step alone, on the interactive thread.
C19_WorkerOwnsNoGraphState ==
    [][ /\ last'.op \in WorkerSteps
           => /\ node_graph' = node_graph
              /\ slot_to_node' = slot_to_node
              /\ changed_nodes' = changed_nodes
              /\ dirty_nodes' = dirty_nodes
              /\ clear_graph' = clear_graph
              /\ phase' = phase /\ app' = app
              /\ \A key \in DOMAIN counters' : counters'[key] = counters[key]
        /\ \A key \in (DOMAIN counters) \cap (DOMAIN counters') :
              counters'[key] # counters[key]
              => /\ last'.op = "dispatch"
                 /\ app = "running" /\ phase = "dispatch"
      ]_vars

\* The worker has sent the result of a request for a node that is in the
\* graph and still shows nothing.
C19_Witness ==
    /\ last.op = "send"
    /\ last.res = "sent"
    /\ \E id \in DOMAIN node_graph.nodes :
          /\ NodeKey(id) = last.a
          /\ node_graph.nodes[id].data_version = 0
          /\ counters[last.a] = last.ver

\* C20: once the interactive side is gone and the request channel closed,
\* the worker leaves its loop: the channel gets no new request, the worker
\* takes what is buffered and then exits instead of blocking in recv.
C20_WorkerExitsAfterClose ==
    /\ (app # "running") ~> (worker.pc = "exited")
    /\ [][app # "running" => /\ Len(request_chan') <= Len(request_chan)
                             /\ worker.pc = "exited" => worker' = worker]_vars

\* The app is gone, the channel is drained and the worker has left its loop.
C20_Witness ==
    /\ app = "exited"
    /\ worker.pc = "exited"
    /\ last.op = "worker exit"
    /\ request_chan = << >>

\* The stable keys the key table holds: the occupied slots.
SlotMapKeys(sm) ==
    {[idx |-> i, version |-> sm.slots[i].version] :
        i \in {j \in 1..Len(sm.slots) : sm.slots[j].value # NoNode}}

\* C21: every stable key in slot_to_node maps to the id of a node that is in
\* the graph and carries that same key, so neither the merge nor the
\* dispatch finds a key whose node is missing.
C21_KeyTableMatchesGraph ==
    /\ \A key \in SlotMapKeys(slot_to_node) :
          LET node_id == SlotMapGet(slot_to_node, key) IN
          /\ node_id \in DOMAIN node_graph.nodes
          /\ node_graph.nodes[node_id].node_id_key = key
    /\ ~(last.op = "merge" /\ last.res = "panic")

\* C22: a result is committed only to the node its request was stamped
\* for: at every commit the node written carries the result's node_id as
\* its node_id_key, also after the graph has given a freed id to a new node.
C22_CommitToStampedNode ==
    [][ last'.op = "merge" /\ last'.res = "commit"
        => /\ last'.a = last'.b
           /\ \A id \in DOMAIN node_graph'.nodes :
                 (id \in DOMAIN node_graph.nodes
                  /\ node_graph'.nodes[id] # node_graph.nodes[id])
                 => node_graph.nodes[id].node_id_key = Head(response_chan).node_id
      ]_vars

\* C23: for every live node data_version <= config_version in every state,
\* and no step lowers a node's data_version: a commit writes a value at
\* least as large as the one it replaces.
C23_DataVersionBounded ==
    [][ /\ \A id \in DOMAIN node_graph'.nodes :
              node_graph'.nodes[id].data_version
                  <= counters'[node_graph'.nodes[id].config_version]
        /\ \A id \in KeptNodes :
              node_graph'.nodes[id].data_version >= node_graph.nodes[id].data_version
      ]_vars

\* A commit has raised a node from one computed version to a later one.
C23_Witness ==
    /\ last.op = "merge"
    /\ last.res = "commit"
    /\ last.ver >= 2
    /\ \E id \in DOMAIN node_graph.nodes :
          /\ NodeKey(id) = last.b
          /\ node_graph.nodes[id].data_version = last.ver
          /\ counters[last.b] = last.ver

====
